---- MODULE Spec2Model ----
(***************************************************************************)
(* A model of the grid-printer crate: the style engine (src/src/style.rs), *)
(* the GridPrinterBuilder and GridPrinter::print (src/src/lib.rs).         *)
(*                                                                         *)
(* Text is a sequence of one-character strings; the escape character is    *)
(* written "ESC".  An Option<T> is a sequence of length 0 (None) or 1      *)
(* (Some).  A source is a Vec<Vec<F>> of unsigned integers, whose Display  *)
(* is their decimal notation.                                              *)
(***************************************************************************)
EXTENDS Naturals, Sequences, FiniteSets

VARIABLES
    phase,        \* "building": a GridPrinterBuilder is held; "built": a GridPrinter
    builder,      \* the GridPrinterBuilder's fields
    lastOp,       \* the last builder call: its name, argument and result
    printer,      \* the GridPrinter's fields except max_widths
    max_widths,   \* GridPrinter.max_widths (the RefCell's content)
    last,         \* the last completed print call: source, output, outcome
    pc,           \* position inside a print call: "idle", "measure", "emit", "done", "panic"
    source,       \* the argument of the print call in progress
    buff,         \* print's local buff
    idx,          \* the next logical cell of the running pass, counted row-major
    out,          \* the characters written to stdout by the print call in progress
    flushes       \* the number of stdout flushes of the print call in progress

vars == <<phase, builder, lastOp, printer, max_widths, last, pc, source, buff, idx, out, flushes>>

(***************************************************************************)
(* Bounds of the model.                                                    *)
(***************************************************************************)
MaxRows == 2
MaxCols == 2
MaxSpacing == 0
MaxSrcRows == 2
MaxSrcCols == 2
MaxStyleLen == 2

DefaultSpacing == 2

None == <<>>
Some(x) == <<x>>
IsSome(o) == Len(o) = 1
Unwrap(o) == o[1]

RECURSIVE Spaces(_)
Spaces(n) == IF n = 0 THEN <<>> ELSE <<" ">> \o Spaces(n - 1)

RECURSIVE Zeros(_)
Zeros(n) == IF n = 0 THEN <<>> ELSE <<0>> \o Zeros(n - 1)

RECURSIVE Nones(_)
Nones(n) == IF n = 0 THEN <<>> ELSE <<None>> \o Nones(n - 1)

(***************************************************************************)
(* Display of an unsigned integer: its decimal digits.                     *)
(***************************************************************************)
DigitChar(d) ==
    CASE d = 0 -> "0" [] d = 1 -> "1" [] d = 2 -> "2" [] d = 3 -> "3" [] d = 4 -> "4"
      [] d = 5 -> "5" [] d = 6 -> "6" [] d = 7 -> "7" [] d = 8 -> "8" [] d = 9 -> "9"

RECURSIVE Display(_)
Display(n) == IF n < 10 THEN <<DigitChar(n)>> ELSE Display(n \div 10) \o <<DigitChar(n % 10)>>

(***************************************************************************)
(* Style engine (style.rs).                                                *)
(***************************************************************************)
Sgr1(digits) == <<"ESC", "[", "1", ";">> \o digits \o <<"m">>

FgEscapeCode(fg) ==
    CASE fg = "Black"         -> Sgr1(<<"3", "0">>)
      [] fg = "Red"           -> Sgr1(<<"3", "1">>)
      [] fg = "Green"         -> Sgr1(<<"3", "2">>)
      [] fg = "Yellow"        -> Sgr1(<<"3", "3">>)
      [] fg = "Blue"          -> Sgr1(<<"3", "4">>)
      [] fg = "Magenta"       -> Sgr1(<<"3", "5">>)
      [] fg = "Cyan"          -> Sgr1(<<"3", "6">>)
      [] fg = "White"         -> Sgr1(<<"3", "7">>)
      [] fg = "BrightBlack"   -> Sgr1(<<"9", "0">>)
      [] fg = "BrightRed"     -> Sgr1(<<"9", "1">>)
      [] fg = "BrightGreen"   -> Sgr1(<<"9", "2">>)
      [] fg = "BrightYellow"  -> Sgr1(<<"9", "3">>)
      [] fg = "BrightBlue"    -> Sgr1(<<"9", "4">>)
      [] fg = "BrightMagenta" -> Sgr1(<<"9", "5">>)
      [] fg = "BrightCyan"    -> Sgr1(<<"9", "6">>)
      [] fg = "BrightWhite"   -> Sgr1(<<"9", "7">>)
      [] fg = "Reset"         -> Sgr1(<<"0">>)

BgEscapeCode(bg) ==
    CASE bg = "Black"         -> Sgr1(<<"4", "0">>)
      [] bg = "Red"           -> Sgr1(<<"4", "1">>)
      [] bg = "Green"         -> Sgr1(<<"4", "2">>)
      [] bg = "Yellow"        -> Sgr1(<<"4", "3">>)
      [] bg = "Blue"          -> Sgr1(<<"4", "4">>)
      [] bg = "Magenta"       -> Sgr1(<<"4", "5">>)
      [] bg = "Cyan"          -> Sgr1(<<"4", "6">>)
      [] bg = "White"         -> Sgr1(<<"4", "7">>)
      [] bg = "BrightBlack"   -> Sgr1(<<"1", "0", "0">>)
      [] bg = "BrightRed"     -> Sgr1(<<"1", "0", "1">>)
      [] bg = "BrightGreen"   -> Sgr1(<<"1", "0", "2">>)
      [] bg = "BrightYellow"  -> Sgr1(<<"1", "0", "3">>)
      [] bg = "BrightBlue"    -> Sgr1(<<"1", "0", "4">>)
      [] bg = "BrightMagenta" -> Sgr1(<<"1", "0", "5">>)
      [] bg = "BrightCyan"    -> Sgr1(<<"1", "0", "6">>)
      [] bg = "BrightWhite"   -> Sgr1(<<"1", "0", "7">>)
      [] bg = "Reset"         -> Sgr1(<<"0">>)

SgrEscapeCode(sgr) ==
    CASE sgr = "Bold"          -> Sgr1(<<"1">>)
      [] sgr = "Faint"         -> Sgr1(<<"2">>)
      [] sgr = "Italic"        -> Sgr1(<<"3">>)
      [] sgr = "Underline"     -> Sgr1(<<"4">>)
      [] sgr = "StrikeThrough" -> Sgr1(<<"9">>)
      [] sgr = "Reset"         -> Sgr1(<<"0">>)

\* StyleOpt::new().fg(..).bg(..).sgr(..)
StyleOpt(fg, bg, sgr) == [fg |-> fg, bg |-> bg, sgr |-> sgr]

\* stylize(s, opt): fg + bg + sgr + text + reset
Stylize(s, opt) ==
    (IF IsSome(opt.fg) THEN FgEscapeCode(Unwrap(opt.fg)) ELSE <<>>)
    \o (IF IsSome(opt.bg) THEN BgEscapeCode(Unwrap(opt.bg)) ELSE <<>>)
    \o (IF IsSome(opt.sgr) THEN SgrEscapeCode(Unwrap(opt.sgr)) ELSE <<>>)
    \o s
    \o FgEscapeCode("Reset")

\* colorize(s, fg), the function print_cell calls: it is handed the foreground
\* colour alone, and wraps the text in that colour's code and the reset code.
Colorize(s, fg) == FgEscapeCode(fg) \o s \o FgEscapeCode("Reset")

(***************************************************************************)
(* Inputs.                                                                 *)
(***************************************************************************)
SeqsUpTo(S, n) == UNION {[1..k -> S] : k \in 0..n}

\* The values a source holds: one of one digit, one of two.
Values == {7, 10}

\* The grid of the style module's example.
ExampleGrid == <<<<1, 2, 3, 4>>, <<5, 6, 7, 8>>, <<9, 10, 11, 12>>>>
ExampleDims == <<Len(ExampleGrid), Len(ExampleGrid[1])>>

Dims == (0..MaxRows) \X (0..MaxCols)

\* Every source of up to MaxSrcRows rows, each of up to MaxSrcCols entries.
Sources == SeqsUpTo(SeqsUpTo(Values, MaxSrcCols), MaxSrcRows)

\* The sources whose rows all have the same length.
RectSources == {src \in Sources : \A i, k \in 1..Len(src) : Len(src[i]) = Len(src[k])}

\* The example's grid, and the sources of at most one row.
ExampleSources == {ExampleGrid} \cup {src \in Sources : Len(src) <= 1}

\* The styles of the style module's example.
StyleOpts ==
    { StyleOpt(Some("Magenta"), None, None),
      StyleOpt(Some("Black"), Some("BrightYellow"), None),
      StyleOpt(None, None, Some("StrikeThrough")) }

StyleEntries == {None} \cup {Some(s) : s \in StyleOpts}

\* The entries of the style sequences of the printers that print: no style, a
\* style with a foreground, a style without one.
PrintStyleEntries ==
    { None,
      Some(StyleOpt(Some("Black"), Some("BrightYellow"), None)),
      Some(StyleOpt(None, None, Some("StrikeThrough"))) }

(***************************************************************************)
(* GridPrinterBuilder.                                                     *)
(***************************************************************************)
BuilderDefault == [rows |-> 1, cols |-> 1, col_spacing |-> DefaultSpacing, col_colors |-> None]

BuilderNew(rows, cols) == [BuilderDefault EXCEPT !.rows = rows, !.cols = cols]

OpRecord(op, result, index, style, len) ==
    [op |-> op, result |-> result, index |-> index, style |-> style, len |-> len]

NoPrinter == [rows |-> 0, cols |-> 0, col_spacing |-> 0, col_colors |-> None]
NoCall == [source |-> <<>>, out |-> <<>>, status |-> "none", flushes |-> 0, seq |-> "none"]

CallIdle ==
    /\ pc = "idle" /\ source = <<>> /\ buff = <<>> /\ idx = 0 /\ out = <<>> /\ flushes = 0

\* After GridPrinterBuilder::new(rows, cols), for dimensions in D.
InitFor(D) ==
    /\ phase = "building"
    /\ \E d \in D : builder = BuilderNew(d[1], d[2])
    /\ lastOp = OpRecord("new", "Ok", 0, None, 0)
    /\ printer = NoPrinter
    /\ max_widths = <<>>
    /\ last = NoCall
    /\ CallIdle

Init == InitFor(Dims)

InitExample == InitFor({ExampleDims})

printVars == <<printer, max_widths, last, pc, source, buff, idx, out, flushes>>

\* GridPrinterBuilder::col_spacing
ColSpacing(n) ==
    /\ phase = "building"
    /\ builder' = [builder EXCEPT !.col_spacing = n]
    /\ lastOp' = OpRecord("col_spacing", "Ok", 0, None, 0)
    /\ UNCHANGED <<phase, printVars>>

\* GridPrinterBuilder::col_colors: the sequence is stored as given.
ColColorsResult(b, col_colors) == [builder |-> [b EXCEPT !.col_colors = Some(col_colors)], result |-> "Ok"]

ColColors(col_colors) ==
    /\ phase = "building"
    /\ LET r == ColColorsResult(builder, col_colors) IN
        /\ builder' = r.builder
        /\ lastOp' = OpRecord("col_colors", r.result, 0, None, Len(col_colors))
    /\ UNCHANGED <<phase, printVars>>

\* A slip of the operation below: the index one past the last column is let through.
ColStyleResultOffByOne(b, index, style) ==
    IF index > b.cols
    THEN [builder |-> b, result |-> "DimensionErr"]
    ELSE LET cur == IF IsSome(b.col_colors) THEN Unwrap(b.col_colors) ELSE Nones(b.cols + 1) IN
         [builder |-> [b EXCEPT !.col_colors = Some([cur EXCEPT ![index + 1] = Some(style)])],
          result |-> "Ok"]

\* The per-column style operation of the builder (col_style in the examples).
ColStyleResult(b, index, style) ==
    IF index >= b.cols
    THEN [builder |-> b, result |-> "DimensionErr"]
    ELSE LET cur == IF IsSome(b.col_colors) THEN Unwrap(b.col_colors) ELSE Nones(b.cols) IN
         [builder |-> [b EXCEPT !.col_colors = Some([cur EXCEPT ![index + 1] = Some(style)])],
          result |-> "Ok"]

ColStyle(index, style) ==
    /\ phase = "building"
    \* the operation is described for builders whose styles, if present, have length cols
    /\ IsSome(builder.col_colors) => Len(Unwrap(builder.col_colors)) = builder.cols
    /\ LET r == ColStyleResult(builder, index, style) IN
        /\ builder' = r.builder
        /\ lastOp' = OpRecord("col_style", r.result, index, Some(style), 0)
    /\ UNCHANGED <<phase, printVars>>

\* GridPrinterBuilder::build
BuildPrinter(b) == [rows |-> b.rows, cols |-> b.cols, col_spacing |-> b.col_spacing, col_colors |-> b.col_colors]

Build ==
    /\ phase = "building"
    /\ phase' = "built"
    /\ printer' = BuildPrinter(builder)
    /\ max_widths' = Zeros(builder.cols)
    /\ lastOp' = OpRecord("build", "Ok", 0, None, 0)
    /\ UNCHANGED <<builder, last, pc, source, buff, idx, out, flushes>>

(***************************************************************************)
(* GridPrinter::print.                                                     *)
(***************************************************************************)
\* The cell of logical row i, column j (from 0): "" when the row or the entry is absent.
CellAt(src, i, j) ==
    IF i >= Len(src) THEN <<>>
    ELSE IF j >= Len(src[i + 1]) THEN <<>>
    ELSE Display(src[i + 1][j + 1])

\* Two slips of the update below: adding the length up, and storing it without
\* the comparison.
UpdateWidthSum(widths, j, len) == [widths EXCEPT ![j + 1] = @ + len]

UpdateWidthLast(widths, j, len) == [widths EXCEPT ![j + 1] = len]

\* The update of max_widths[j] by a cell of length len.
UpdateWidth(widths, j, len) ==
    IF len > widths[j + 1] THEN [widths EXCEPT ![j + 1] = len] ELSE widths

\* The style of a column: none when no styles are set or the sequence is too short.
ColorOpt(p, col_idx) ==
    IF ~IsSome(p.col_colors) THEN None
    ELSE IF col_idx >= Len(Unwrap(p.col_colors)) THEN None
    ELSE Unwrap(p.col_colors)[col_idx + 1]

\* A slip of pad: one space too many.
GridPadOneMore(n) == Spaces(n + 1)

\* GridPrinter::pad
GridPad(n) == Spaces(n)

\* print_cell: what it writes, or a panic.  unwrap() of an unset foreground panics
\* before anything is written; so does a subtraction below zero (a build without
\* overflow checks wraps instead; no run of print reaches it, see NoUnderflow).
PrintCell(p, widths, cell, col_idx, style_opt) ==
    IF IsSome(style_opt) /\ ~IsSome(Unwrap(style_opt).fg)
    THEN [panic |-> TRUE, text |-> <<>>]
    ELSE LET s == IF IsSome(style_opt) THEN Colorize(cell, Unwrap(Unwrap(style_opt).fg)) ELSE cell
             col_width == widths[col_idx + 1]
         IN  IF col_width < Len(cell)
             THEN [panic |-> TRUE, text |-> <<>>]
             ELSE [panic |-> FALSE, text |-> s \o GridPad((col_width - Len(cell)) + p.col_spacing)]

\* The cell of the measurement loops' iteration n, counted row-major, and the
\* widths after it.
MeasuredCell(p, src, n) == CellAt(src, n \div p.cols, n % p.cols)

MeasureOne(p, src, n, widths) == UpdateWidth(widths, n % p.cols, Len(MeasuredCell(p, src, n)))

\* The emission loop's iteration n: print_cell and, after the last column, the line
\* break and the flush.
EmitOne(p, widths, b, n) ==
    LET col_idx == n % p.cols
        r == PrintCell(p, widths, b[n + 1], col_idx, ColorOpt(p, col_idx))
        eol == (n + 1) % p.cols = 0
    IN  [panic |-> r.panic,
         text |-> IF r.panic THEN <<>> ELSE r.text \o (IF eol THEN <<"\n">> ELSE <<>>),
         flushes |-> IF ~r.panic /\ eol THEN 1 ELSE 0]

\* The measurement loops from iteration n on.
RECURSIVE MeasurePass(_, _, _, _, _)
MeasurePass(p, src, n, widths, b) ==
    IF n >= p.rows * p.cols
    THEN [max_widths |-> widths, buff |-> b]
    ELSE MeasurePass(p, src, n + 1, MeasureOne(p, src, n, widths), Append(b, MeasuredCell(p, src, n)))

\* The emission loop from iteration n on.
RECURSIVE EmitPass(_, _, _, _, _, _)
EmitPass(p, widths, b, n, o, fl) ==
    IF n >= Len(b)
    THEN [pc |-> "done", out |-> o, flushes |-> fl]
    ELSE LET e == EmitOne(p, widths, b, n) IN
         IF e.panic
         THEN [pc |-> "panic", out |-> o, flushes |-> fl]
         ELSE EmitPass(p, widths, b, n + 1, o \o e.text, fl + e.flushes)

\* A whole print call on a printer whose max_widths is widths.
RunPrint(p, widths, src) ==
    LET m == MeasurePass(p, src, 0, widths, <<>>)
        e == EmitPass(p, m.max_widths, m.buff, 0, <<>>, 0)
    IN  [pc |-> e.pc, max_widths |-> m.max_widths, out |-> e.out, flushes |-> e.flushes]

\* print(src) as one step.
PrintCall(src) ==
    /\ phase = "built"
    /\ pc = "idle"
    /\ LET r == RunPrint(printer, max_widths, src) IN
        /\ max_widths' = r.max_widths
        /\ last' = [source |-> src, out |-> r.out, status |-> r.pc, flushes |-> r.flushes,
                    seq |-> IF last.status = "none" THEN "first"
                            ELSE IF last.source = src THEN "repeat" ELSE "other"]
    /\ UNCHANGED <<phase, builder, lastOp, printer, pc, source, buff, idx, out, flushes>>

\* print(src), statement by statement.
StartPrint(src) ==
    /\ phase = "built"
    /\ pc \in {"idle", "done", "panic"}
    /\ pc' = "measure"
    /\ source' = src
    /\ buff' = <<>>
    /\ idx' = 0
    /\ out' = <<>>
    /\ flushes' = 0
    /\ UNCHANGED <<phase, builder, lastOp, printer, max_widths, last>>

MeasureCell ==
    /\ pc = "measure"
    /\ idx < printer.rows * printer.cols
    /\ max_widths' = MeasureOne(printer, source, idx, max_widths)
    /\ buff' = Append(buff, MeasuredCell(printer, source, idx))
    /\ idx' = idx + 1
    /\ UNCHANGED <<phase, builder, lastOp, printer, last, pc, source, out, flushes>>

MeasureDone ==
    /\ pc = "measure"
    /\ idx >= printer.rows * printer.cols
    /\ pc' = "emit"
    /\ idx' = 0
    /\ UNCHANGED <<phase, builder, lastOp, printer, max_widths, last, source, buff, out, flushes>>

EmitCell ==
    /\ pc = "emit"
    /\ idx < Len(buff)
    /\ LET e == EmitOne(printer, max_widths, buff, idx) IN
        IF e.panic
        THEN pc' = "panic" /\ UNCHANGED <<idx, out, flushes>>
        ELSE /\ out' = out \o e.text
             /\ flushes' = flushes + e.flushes
             /\ idx' = idx + 1
             /\ pc' = pc
    /\ UNCHANGED <<phase, builder, lastOp, printer, max_widths, last, source, buff>>

EmitDone ==
    /\ pc = "emit"
    /\ idx >= Len(buff)
    /\ pc' = "done"
    /\ UNCHANGED <<phase, builder, lastOp, printer, max_widths, last, source, buff, idx, out, flushes>>

(***************************************************************************)
(* Specifications.                                                         *)
(***************************************************************************)
\* The builder (without the per-column operation) and whole print calls.
Next ==
    \/ \E n \in 0..MaxSpacing : ColSpacing(n)
    \/ \E v \in SeqsUpTo(PrintStyleEntries, MaxStyleLen) : ColColors(v)
    \/ Build
    \/ \E src \in RectSources : PrintCall(src)

Spec == Init /\ [][Next]_vars

\* The same for a printer of the example's dimensions.
NextExample ==
    \/ \E n \in 0..MaxSpacing : ColSpacing(n)
    \/ \E v \in SeqsUpTo(PrintStyleEntries, MaxStyleLen) : ColColors(v)
    \/ Build
    \/ \E src \in ExampleSources : PrintCall(src)

SpecExample == InitExample /\ [][NextExample]_vars

\* The builder and print calls statement by statement.
NextSteps ==
    \/ \E n \in 0..MaxSpacing : ColSpacing(n)
    \/ \E v \in SeqsUpTo(PrintStyleEntries, MaxStyleLen) : ColColors(v)
    \/ Build
    \/ \E src \in Sources : StartPrint(src)
    \/ MeasureCell
    \/ MeasureDone
    \/ EmitCell
    \/ EmitDone

SpecSteps == Init /\ [][NextSteps]_vars

\* The builder alone, with style sequences of every length up to cols + 1.
NextBuilder ==
    \/ \E n \in 0..MaxSpacing : ColSpacing(n)
    \/ \E v \in SeqsUpTo(StyleEntries, MaxCols + 1) : ColColors(v)
    \/ \E i \in 0..MaxCols, s \in StyleOpts : ColStyle(i, s)
    \/ Build

SpecBuilder == Init /\ [][NextBuilder]_vars

(***************************************************************************)
(* What the claims speak of.                                               *)
(***************************************************************************)
\* The longest cell of logical column j of a source, over the printer's rows.
ColMax(p, src, j) ==
    LET lens == {Len(CellAt(src, i, j)) : i \in {r \in 0..p.rows : r < p.rows}} IN
    IF lens = {} THEN 0 ELSE CHOOSE m \in lens : \A x \in lens : x <= m

\* A text without its escape sequences (each runs from ESC to the next "m").
RECURSIVE StripFrom(_, _, _)
StripFrom(t, k, inEsc) ==
    IF k > Len(t) THEN <<>>
    ELSE IF inEsc THEN StripFrom(t, k + 1, t[k] # "m")
    ELSE IF t[k] = "ESC" THEN StripFrom(t, k + 1, TRUE)
    ELSE <<t[k]>> \o StripFrom(t, k + 1, FALSE)

Strip(t) == StripFrom(t, 1, FALSE)

RECURSIVE Concat(_)
Concat(ss) == IF ss = <<>> THEN <<>> ELSE Head(ss) \o Concat(Tail(ss))

\* The grid as the specification lays it out: each of the rows x cols logical cells
\* is Wrap(cell, column), then spaces up to widths[column] + col_spacing visible
\* characters; each row ends with a line break.  No columns, no output.
Layout(p, widths, src, Wrap(_, _)) ==
    IF p.cols = 0 THEN <<>>
    ELSE Concat([i \in 1..p.rows |->
            Concat([j \in 1..p.cols |->
                LET cell == CellAt(src, i - 1, j - 1) IN
                Wrap(cell, j - 1) \o Spaces((widths[j] + p.col_spacing) - Len(cell))])
            \o <<"\n">>])

Plain(cell, j) == cell

ColMaxes(p, src) == [j \in 1..p.cols |-> ColMax(p, src, j - 1)]

Rectangular(p, src) == Len(src) = p.rows /\ \A i \in 1..Len(src) : Len(src[i]) = p.cols

Undersized(p, src) ==
    \/ Len(src) < p.rows
    \/ \E i \in 1..Len(src) : i <= p.rows /\ Len(src[i]) < p.cols

\* A source cut down to the printer's rows and columns.
Clip(p, src) ==
    [i \in 1..(IF Len(src) < p.rows THEN Len(src) ELSE p.rows) |->
        [j \in 1..(IF Len(src[i]) < p.cols THEN Len(src[i]) ELSE p.cols) |-> src[i][j]]]

Printed == phase = "built" /\ last.status # "none"

StylesFit(c) == IsSome(c.col_colors) => Len(Unwrap(c.col_colors)) = c.cols

RECURSIVE FirstLineFrom(_, _)
FirstLineFrom(t, k) ==
    IF k > Len(t) THEN <<>>
    ELSE IF t[k] = "\n" THEN <<t[k]>>
    ELSE <<t[k]>> \o FirstLineFrom(t, k + 1)

FirstLine(t) == FirstLineFrom(t, 1)

Unstyled(p) == \A j \in 1..p.cols : ColorOpt(p, j - 1) = None

\* The style module's example: its grid, printed first by a printer of its
\* dimensions with the default spacing and no styles.
ExampleRun ==
    /\ Printed /\ last.seq = "first" /\ last.source = ExampleGrid
    /\ printer.col_spacing = DefaultSpacing /\ Unstyled(printer)

RECURSIVE CountOf(_, _)
CountOf(t, ch) == IF t = <<>> THEN 0 ELSE (IF Head(t) = ch THEN 1 ELSE 0) + CountOf(Tail(t), ch)

Cells == printer.rows * printer.cols

(***************************************************************************)
(* C1: one print call on a freshly built printer, given a rectangular      *)
(* rows x cols source, completes and lays every cell out on               *)
(* max(length of the column's cells) + col_spacing visible characters,     *)
(* styled or not.                                                          *)
(***************************************************************************)
C1_ColumnWidth ==
    (Printed /\ last.seq = "first" /\ Rectangular(printer, last.source))
        => /\ last.status = "done"
           /\ Strip(last.out) = Layout(printer, ColMaxes(printer, last.source), last.source, Plain)

(***************************************************************************)
(* C2: the widths a call emits with are those of its own source, and its   *)
(* output is the output of the same call on a freshly built printer.       *)
(***************************************************************************)
C2_WidthsOfThisCall ==
    Printed
        => /\ max_widths = ColMaxes(printer, last.source)
           /\ last.out = RunPrint(printer, Zeros(printer.cols), last.source).out

(***************************************************************************)
(* C3: a print call with the source of the call before it emits the same   *)
(* output, and ends the same way.                                          *)
(***************************************************************************)
C3_RepeatSameOutput ==
    [][(Printed /\ last'.source = last.source)
        => (last'.out = last.out /\ last'.status = last.status /\ last'.flushes = last.flushes)]_vars

C3_Witness ==
    /\ Printed /\ last.seq = "repeat" /\ last.status = "done"
    /\ last.out # <<>>
    /\ max_widths # ColMaxes(printer, last.source)

(***************************************************************************)
(* C4: print of an undersized source raises no error and emits all         *)
(* rows x cols cells, a missing one as nothing followed by                 *)
(* max_widths[col] + col_spacing spaces; what lies beyond the printer's    *)
(* rows and columns has no effect.                                         *)
(***************************************************************************)
C4_UndersizedSource ==
    (Printed /\ Undersized(printer, last.source))
        => /\ last.status = "done"
           /\ Strip(last.out) = Layout(printer, max_widths, Clip(printer, last.source), Plain)

\* A cell as the style engine renders it with its column's style.
Styled(cell, j) ==
    LET style_opt == ColorOpt(printer, j) IN
    IF IsSome(style_opt) THEN Stylize(cell, Unwrap(style_opt)) ELSE cell

(***************************************************************************)
(* C5: print emits every cell of a styled column as foreground code,       *)
(* background code, decoration code (each empty when unset), the text and  *)
(* one reset code, then the padding spaces, and completes normally.        *)
(***************************************************************************)
C5_StyledCell ==
    Printed
        => /\ last.status = "done"
           /\ last.out = Layout(printer, max_widths, last.source, Styled)

(***************************************************************************)
(* C6: the bulk column-styles operation, given a sequence whose length is  *)
(* not cols, fails with DimensionErr; so a builder's or printer's styles,  *)
(* when present, have length cols.                                         *)
(***************************************************************************)
C6_BulkStylesChecked ==
    /\ (phase = "building" /\ lastOp.op = "col_colors" /\ lastOp.len # builder.cols)
            => lastOp.result = "DimensionErr"
    /\ StylesFit(builder)
    /\ phase = "built" => StylesFit(printer)

(***************************************************************************)
(* C7: the per-column style operation with index >= cols fails with        *)
(* DimensionErr and changes nothing; with index < cols it succeeds, the    *)
(* styles then have length cols, the entry at index is the style given,    *)
(* and every other entry is what it was (absent when no styles were set).  *)
(***************************************************************************)
C7_ColumnStyle ==
    [][(lastOp'.op = "col_style")
        => IF lastOp'.index >= builder.cols
           THEN lastOp'.result = "DimensionErr" /\ builder' = builder
           ELSE /\ lastOp'.result = "Ok"
                /\ IsSome(builder'.col_colors)
                /\ Len(Unwrap(builder'.col_colors)) = builder.cols
                /\ \A k \in 1..builder.cols :
                      Unwrap(builder'.col_colors)[k] =
                          IF k = lastOp'.index + 1 THEN lastOp'.style
                          ELSE IF IsSome(builder.col_colors) THEN Unwrap(builder.col_colors)[k]
                          ELSE None
                /\ [builder' EXCEPT !.col_colors = None] = [builder EXCEPT !.col_colors = None]]_vars

C7_Witness ==
    /\ phase = "building"
    /\ lastOp.op = "col_style" /\ lastOp.result = "DimensionErr" /\ lastOp.index = builder.cols
    /\ IsSome(builder.col_colors)
    /\ \E k \in 1..builder.cols : IsSome(Unwrap(builder.col_colors)[k])

(***************************************************************************)
(* C8 as stated: the example grid printed by a freshly built 3 x 4 printer *)
(* with the default spacing and no styles: the widths are 1, 2, 2, 2 and   *)
(* the first row is 1 and two spaces, 2 and three, 3 and three, 4 and two, *)
(* and a line break.                                                       *)
(***************************************************************************)
C8_ExampleAsClaimed ==
    ExampleRun
        => /\ max_widths = <<1, 2, 2, 2>>
           /\ FirstLine(last.out) =
                <<"1", " ", " ", "2", " ", " ", " ", "3", " ", " ", " ", "4", " ", " ", "\n">>

(***************************************************************************)
(* C8 as amended: the same run completes, the widths are 1, 2, 2, 2 and    *)
(* every value of the first row is followed by its column's width + 2 - 1  *)
(* spaces: 1 by two, 2 by three, 3 by three and 4 by three as well.        *)
(***************************************************************************)
C8_Example ==
    ExampleRun
        => /\ last.status = "done"
           /\ max_widths = <<1, 2, 2, 2>>
           /\ FirstLine(last.out) =
                <<"1", " ", " ", "2", " ", " ", " ", "3", " ", " ", " ", "4", " ", " ", " ", "\n">>

C8_Witness == ExampleRun /\ last.status = "done" /\ Len(last.out) > 0

(***************************************************************************)
(* C9: in a print call nothing is emitted before every cell is measured;   *)
(* cells are emitted row-major, a line break and a flush follow the last   *)
(* column of each row and nothing else; a call with cols > 0 emits rows    *)
(* line breaks, and a call with rows = 0 or cols = 0 emits nothing.        *)
(***************************************************************************)
C9_MeasureThenEmit ==
    phase = "built" =>
        /\ pc = "measure" => out = <<>>
        /\ out # <<>> => Len(buff) = Cells
        /\ pc \in {"emit", "done", "panic"} =>
              /\ Len(buff) = Cells
              /\ \A n \in 1..Cells : buff[n] = CellAt(source, (n - 1) \div printer.cols, (n - 1) % printer.cols)
              /\ out = EmitPass(printer, max_widths, SubSeq(buff, 1, idx), 0, <<>>, 0).out
              /\ printer.cols > 0 =>
                    /\ CountOf(out, "\n") = idx \div printer.cols
                    /\ flushes = idx \div printer.cols
        /\ (pc \in {"done", "panic"} /\ printer.cols > 0) => CountOf(out, "\n") = printer.rows
        /\ (pc \in {"done", "panic"} /\ Cells = 0) => out = <<>>

(***************************************************************************)
(* C10: during emission, whatever was printed before, max_widths has       *)
(* length cols and max_widths[col] is at least the length of every cell of *)
(* the column, so the padding's subtraction never goes below zero.         *)
(***************************************************************************)
C10_NoUnderflow ==
    phase = "built" =>
        /\ Len(max_widths) = printer.cols
        /\ pc \in {"emit", "panic"} =>
              \A n \in 1..Len(buff) : max_widths[((n - 1) % printer.cols) + 1] >= Len(buff[n])

C10_Witness ==
    /\ phase = "built" /\ pc = "emit" /\ idx > 0 /\ idx < Len(buff)
    /\ Undersized(printer, source)
    /\ max_widths[(idx % printer.cols) + 1] > ColMax(printer, source, idx % printer.cols)
    /\ Len(buff[idx + 1]) > 0

====
